---- MODULE Spec2Model ----
(***************************************************************************)
(* A model of the PNG container parser of src/src/png.rs: the CRC-32       *)
(* engine (make_crc_table, update_crc, crc), the chunk reader              *)
(* (PNGFile::read_chunk) and the container parser (PNGFile::parse).        *)
(* The file is a finite sequence of bytes with a read position; one        *)
(* action models the signature check, one the call of read_chunk that      *)
(* heads each turn of the while-let loop, and one each arm of the          *)
(* if / else-if chain that folds the chunk into the parser's state.        *)
(***************************************************************************)
EXTENDS Integers, Sequences, FiniteSets, TLC

(***************************************************************************)
(* Bounds of the model.                                                    *)
(***************************************************************************)
\* the largest number of well-framed chunks in a generated file
MaxChunks == 3

(***************************************************************************)
(* Unsigned 32-bit values.  A u32 is held as the pair <<hi, lo>> of its    *)
(* two 16-bit halves (value hi * 65536 + lo), so that every operation on   *)
(* it keeps its 32-bit width.                                              *)
(***************************************************************************)
Pow2_8 == 256
Pow2_15 == 32768
Pow2_16 == 65536

\* bitwise exclusive or of two naturals (the ^ operator, on one half)
RECURSIVE BitXor(_, _)
BitXor(a, b) ==
    IF a = 0 THEN b
    ELSE IF b = 0 THEN a
    ELSE ((a + b) % 2) + 2 * BitXor(a \div 2, b \div 2)

\* the ^ operator on bytes, tabulated once
XorByte == [a \in 0..255 |-> [b \in 0..255 |-> BitXor(a, b)]]

\* the ^ operator on one 16-bit half, byte by byte
Xor16(a, b) ==
    XorByte[a \div Pow2_8][b \div Pow2_8] * Pow2_8 + XorByte[a % Pow2_8][b % Pow2_8]

\* a ^ b on u32
Xor32(a, b) == <<Xor16(a[1], b[1]), Xor16(a[2], b[2])>>

\* c >> 1 on u32
Shr1(c) == <<c[1] \div 2, (c[1] % 2) * Pow2_15 + c[2] \div 2>>

\* c >> 8 on u32
Shr8(c) == <<c[1] \div Pow2_8, (c[1] % Pow2_8) * Pow2_8 + c[2] \div Pow2_8>>

\* u32::from_be_bytes on a 4-byte array
from_be_bytes(b) == <<b[1] * Pow2_8 + b[2], b[3] * Pow2_8 + b[4]>>

\* u32::to_be_bytes, the inverse layout (used to lay chunks out in a file)
to_be_bytes(n) ==
    << n[1] \div Pow2_8, n[1] % Pow2_8, n[2] \div Pow2_8, n[2] % Pow2_8 >>

(***************************************************************************)
(* The CRC-32 engine.                                                      *)
(***************************************************************************)
\* a variant: the same polynomial not bit-reversed, 0x04c11db7
PolynomialUnreflected == <<1217, 7607>>

\* 0xedb88320
Polynomial == <<60856, 33568>>
\* 0xffffffff
AllOnes == <<65535, 65535>>

\* the inner loop of make_crc_table: k turns of the shift/xor step on c
RECURSIVE crc_table_entry(_, _)
crc_table_entry(c, k) ==
    IF k = 0 THEN c
    ELSE crc_table_entry(IF c[2] % 2 # 0 THEN Xor32(Polynomial, Shr1(c)) ELSE Shr1(c),
                         k - 1)

\* the table make_crc_table fills, indexed 0..255
CRC_TABLE == [n \in 0..255 |-> crc_table_entry(<<0, n>>, 8)]

\* one turn of update_crc's loop:
\*   crc = CRC_TABLE[((crc ^ byte as u32) & 0xff) as usize] ^ (crc >> 8)
update_crc_step(c, byte) ==
    Xor32(CRC_TABLE[XorByte[c[2] % Pow2_8][byte]], Shr8(c))

\* update_crc: fold the bytes of buf, first to last, into the running crc
RECURSIVE update_crc_from(_, _, _)
update_crc_from(c, buf, k) ==
    IF k > Len(buf) THEN c
    ELSE LET next == update_crc_step(c, buf[k])
         IN  IF next[1] >= 0 THEN update_crc_from(next, buf, k + 1) ELSE next

update_crc(c, buf) == update_crc_from(c, buf, 1)

\* crc: seed with all ones, complement the result
crc(buf) == Xor32(update_crc(AllOnes, buf), AllOnes)

(***************************************************************************)
(* Byte sequences and the file.                                            *)
(***************************************************************************)
Min(a, b) == IF a <= b THEN a ELSE b

\* the n bytes of s that follow position pos (fewer when s ends first):
\* what File::read hands back for a buffer of n bytes on a regular file
ReadBytes(s, pos, n) == SubSeq(s, pos + 1, Min(pos + n, Len(s)))

\* a fixed-size zeroed buffer of n bytes after read() stored `got` at its start
FillBuffer(got, n) == [k \in 1..n |-> IF k <= Len(got) THEN got[k] ELSE 0]

\* the PNG signature, png_signiture of parse
png_signiture == <<137, 80, 78, 71, 13, 10, 26, 10>>

\* the chunk type tags parse compares against, as the bytes of the strings
TagIHDR == <<73, 72, 68, 82>>
TagIDAT == <<73, 68, 65, 84>>
TagPLTE == <<80, 76, 84, 69>>
TagIEND == <<73, 69, 78, 68>>

(***************************************************************************)
(* std::str::from_utf8 on the bytes of b from index k on: TRUE when they   *)
(* are well-formed UTF-8.  A String is held as its UTF-8 bytes.            *)
(***************************************************************************)
IsCont(b, k) == k <= Len(b) /\ b[k] >= 128 /\ b[k] <= 191
InRange(b, k, lo, hi) == k <= Len(b) /\ b[k] >= lo /\ b[k] <= hi

RECURSIVE utf8_valid_from(_, _)
utf8_valid_from(b, k) ==
    IF k > Len(b) THEN TRUE
    ELSE IF b[k] <= 127 THEN utf8_valid_from(b, k + 1)
    ELSE IF b[k] >= 194 /\ b[k] <= 223
         THEN IsCont(b, k + 1) /\ utf8_valid_from(b, k + 2)
    ELSE IF b[k] = 224
         THEN InRange(b, k + 1, 160, 191) /\ IsCont(b, k + 2) /\ utf8_valid_from(b, k + 3)
    ELSE IF (b[k] >= 225 /\ b[k] <= 236) \/ b[k] = 238 \/ b[k] = 239
         THEN IsCont(b, k + 1) /\ IsCont(b, k + 2) /\ utf8_valid_from(b, k + 3)
    ELSE IF b[k] = 237
         THEN InRange(b, k + 1, 128, 159) /\ IsCont(b, k + 2) /\ utf8_valid_from(b, k + 3)
    ELSE IF b[k] = 240
         THEN InRange(b, k + 1, 144, 191) /\ IsCont(b, k + 2) /\ IsCont(b, k + 3)
              /\ utf8_valid_from(b, k + 4)
    ELSE IF b[k] >= 241 /\ b[k] <= 243
         THEN IsCont(b, k + 1) /\ IsCont(b, k + 2) /\ IsCont(b, k + 3)
              /\ utf8_valid_from(b, k + 4)
    ELSE IF b[k] = 244
         THEN InRange(b, k + 1, 128, 143) /\ IsCont(b, k + 2) /\ IsCont(b, k + 3)
              /\ utf8_valid_from(b, k + 4)
    ELSE FALSE

\* a variant that keeps the 4 bytes whatever they are
chunk_type_of_unchecked(chunk_type_buf) == chunk_type_buf

\* chunk_type of read_chunk: the tag as a string, "" when it is not UTF-8
chunk_type_of(chunk_type_buf) ==
    IF utf8_valid_from(chunk_type_buf, 1) THEN chunk_type_buf ELSE <<>>

(***************************************************************************)
(* The chunk reader, PNGFile::read_chunk, on the file `bytes` read from    *)
(* position pos.  The result says whether a chunk came back (ok), which    *)
(* error otherwise (err), the chunk, and the position the file is left at. *)
(* The files of the model are shorter than 65536 bytes, so a payload       *)
(* length with a non-zero upper half always meets a short read.            *)
(***************************************************************************)
NoChunk == [size |-> <<0, 0>>, type_ |-> <<>>, data |-> <<>>, crc |-> <<0, 0>>]

ReadErr(e, pos) == [ok |-> FALSE, err |-> e, chunk |-> NoChunk, pos |-> pos]

\* a variant that leaves the type tag out of the checksummed bytes
crc_mismatch_payload_only(chunk_type_buf, chunk_data, chunk_crc) ==
    crc(chunk_data) # chunk_crc

\* a variant with the comparison turned round
crc_mismatch_inverted(chunk_type_buf, chunk_data, chunk_crc) ==
    crc(chunk_type_buf \o chunk_data) = chunk_crc

\* a variant that never reports a mismatch
crc_mismatch_skipped(chunk_type_buf, chunk_data, chunk_crc) == FALSE

\* the comparison crc(&crc_buffer) != chunk_crc
crc_mismatch(chunk_type_buf, chunk_data, chunk_crc) ==
    crc(chunk_type_buf \o chunk_data) # chunk_crc

read_chunk(bytes, pos) ==
    LET chunk_st == ReadBytes(bytes, pos, 4)
        p1 == pos + Len(chunk_st)
    IN
    IF Len(chunk_st) # 4 THEN ReadErr("EOF", p1)
    ELSE
    LET chunk_size_int == from_be_bytes(chunk_st)
        chunk_type_buf == ReadBytes(bytes, p1, 4)
        p2 == p1 + Len(chunk_type_buf)
    IN
    IF Len(chunk_type_buf) # 4 THEN ReadErr("EOF", p2)
    ELSE
    LET chunk_type == chunk_type_of(chunk_type_buf)
        chunk_data == ReadBytes(bytes, p2,
                                IF chunk_size_int[1] > 0 THEN Len(bytes)
                                ELSE chunk_size_int[2])
        p3 == p2 + Len(chunk_data)
    IN
    IF ~(chunk_size_int[1] = 0 /\ Len(chunk_data) = chunk_size_int[2])
    THEN ReadErr("EOF", p3)
    ELSE
    LET chunk_crc_buf == ReadBytes(bytes, p3, 4)
        p4 == p3 + Len(chunk_crc_buf)
    IN
    IF Len(chunk_crc_buf) # 4 THEN ReadErr("EOF", p4)
    ELSE
    LET chunk_crc == from_be_bytes(chunk_crc_buf)
    IN
    IF crc_mismatch(chunk_type_buf, chunk_data, chunk_crc)
    THEN ReadErr("ParseError(Invalid CRC)", p4)
    ELSE [ok |-> TRUE, err |-> "",
          chunk |-> [size |-> chunk_size_int, type_ |-> chunk_type,
                     data |-> chunk_data, crc |-> chunk_crc],
          pos |-> p4]

(***************************************************************************)
(* The decompression step of parse's IEND arm:                             *)
(*     ZlibDecoder::new(&data_chunks[..]).read_to_end(&mut deflated_data)  *)
(* on a zlib stream made of stored (uncompressed) deflate blocks, the only *)
(* block type the files of the model contain.  The value is the set of     *)
(* outcomes the call can have: one outcome for a complete or a corrupt     *)
(* stream; for a stream that ends early the decoder either reports the     *)
(* error or hands back what it decoded so far, depending on the build; no  *)
(* outcome (the empty set) for Huffman-coded blocks, which are not         *)
(* modelled.                                                               *)
(***************************************************************************)
AdlerModulus == 65521

\* the Adler-32 checksum of s, as a u32
RECURSIVE adler32_from(_, _, _, _)
adler32_from(s, k, a, b) ==
    IF k > Len(s) THEN <<b, a>>
    ELSE LET a2 == (a + s[k]) % AdlerModulus
             b2 == (b + a2) % AdlerModulus
         IN  IF a2 >= 0 THEN adler32_from(s, k + 1, a2, b2) ELSE <<b2, a2>>

adler32(s) == adler32_from(s, 1, 1, 0)

InflateErr == [ok |-> FALSE, out |-> <<>>]
InflateOk(out) == [ok |-> TRUE, out |-> out]
InflateTruncated(out) == {InflateErr, InflateOk(out)}

\* the deflate blocks of z from byte index k on, `out` decoded so far
RECURSIVE inflate_blocks(_, _, _)
inflate_blocks(z, k, out) ==
    IF k > Len(z) THEN InflateTruncated(out)
    ELSE
    LET bfinal == z[k] % 2
        btype  == (z[k] \div 2) % 4
    IN
    IF btype = 3 THEN {InflateErr}
    ELSE IF btype # 0 THEN {}
    ELSE IF k + 4 > Len(z) THEN InflateTruncated(out)
    ELSE
    LET len  == z[k + 1] + z[k + 2] * Pow2_8
        nlen == z[k + 3] + z[k + 4] * Pow2_8
    IN
    IF len + nlen # Pow2_16 - 1 THEN {InflateErr}
    ELSE IF k + 4 + len > Len(z)
         THEN InflateTruncated(out \o SubSeq(z, k + 5, Len(z)))
    ELSE
    LET out2 == out \o SubSeq(z, k + 5, k + 4 + len)
        t    == k + 5 + len
    IN
    IF bfinal = 0 THEN inflate_blocks(z, t, out2)
    ELSE IF t + 3 > Len(z) THEN InflateTruncated(out2)
    ELSE IF from_be_bytes(SubSeq(z, t, t + 3)) # adler32(out2) THEN {InflateErr}
    ELSE {InflateOk(out2)}

\* the zlib header, then the blocks
inflate(z) ==
    IF Len(z) < 2 THEN InflateTruncated(<<>>)
    ELSE IF \/ (z[1] * Pow2_8 + z[2]) % 31 # 0
            \/ (z[2] \div 32) % 2 # 0
            \/ z[1] % 16 # 8
            \/ z[1] \div 16 > 7
         THEN {InflateErr}
    ELSE inflate_blocks(z, 3, <<>>)

(***************************************************************************)
(* The arms of parse's if / else-if chain, as functions of the chunk.      *)
(***************************************************************************)
\* chunk.data.get(a..a+4).unwrap_or(&[0; 4]): the 4 bytes at offset a,
\* zeros when the payload is too short
get_range4(chunk_data, a) ==
    IF a + 4 <= Len(chunk_data) THEN SubSeq(chunk_data, a + 1, a + 4)
    ELSE <<0, 0, 0, 0>>

\* a variant that falls back on the payload's last byte
get_byte_or_last(chunk_data, k) ==
    IF k < Len(chunk_data) THEN chunk_data[k + 1]
    ELSE IF Len(chunk_data) > 0 THEN chunk_data[Len(chunk_data)]
    ELSE 0

\* *(chunk.data.get(k).unwrap_or(&0)): the byte at offset k, zero when absent
get_byte(chunk_data, k) ==
    IF k < Len(chunk_data) THEN chunk_data[k + 1] ELSE 0

ihdr_width(chunk_data) == from_be_bytes(get_range4(chunk_data, 0))
\* a variant that reads the height at the width's offset
ihdr_height_at_offset_0(chunk_data) == from_be_bytes(get_range4(chunk_data, 0))

ihdr_height(chunk_data) == from_be_bytes(get_range4(chunk_data, 4))
ihdr_bit_depth(chunk_data) == get_byte(chunk_data, 8)
ihdr_color_type(chunk_data) == get_byte(chunk_data, 9)
ihdr_compression_method(chunk_data) == get_byte(chunk_data, 10)
ihdr_filter_method(chunk_data) == get_byte(chunk_data, 11)
ihdr_interlace_method(chunk_data) == get_byte(chunk_data, 12)

\* a variant that puts the new payload in front
idat_prepend(buffer, chunk_data) == chunk_data \o buffer

\* a variant that takes an IHDR chunk as the header wherever it stands
is_ihdr_anywhere(chunk_type, index) == chunk_type = TagIHDR

\* the first arm's test: chunk.type_ == "IHDR" && i == 0
is_first_ihdr(chunk_type, index) == chunk_type = TagIHDR /\ index = 0

\* a variant that keys the chunk by the number of chunks already in the map
chunks_insert_by_count(map, index, c) == (Cardinality(DOMAIN map) :> c) @@ map

\* self.chunks.insert(i, chunk) of the else arm
chunks_insert(map, index, c) == (index :> c) @@ map

\* data_chunks.append(&mut data) of the IDAT arm
idat_append(buffer, chunk_data) == buffer \o chunk_data

\* the PLTE arm's loop `for i in 0..chunk.data.len()` from index k on: each
\* turn slices chunk.data[k..k + 3], which panics when k + 3 is past the
\* end, and pushes one RGB entry otherwise
RECURSIVE plte_loop(_, _, _)
plte_loop(entries, chunk_data, k) ==
    IF k >= Len(chunk_data) THEN [pallette |-> entries, panic |-> FALSE]
    ELSE IF k + 3 > Len(chunk_data) THEN [pallette |-> entries, panic |-> TRUE]
    ELSE plte_loop(Append(entries, [r |-> chunk_data[k + 1],
                                    g |-> chunk_data[k + 2],
                                    b |-> chunk_data[k + 3]]),
                   chunk_data, k + 1)

plte_fold(entries, chunk_data) == plte_loop(entries, chunk_data, 0)

\* a variant that compares only the bytes read() stored
signature_mismatch_read_only(bytes) ==
    LET got == ReadBytes(bytes, 0, 8)
    IN  got # SubSeq(png_signiture, 1, Len(got))

\* the test `png_header != png_signiture` on the 8-byte buffer read() filled
signature_mismatch(bytes) ==
    FillBuffer(ReadBytes(bytes, 0, 8), 8) # png_signiture

(***************************************************************************)
(* The state.                                                              *)
(***************************************************************************)
\* Option<File>: None, or Some file with its bytes and read position
None == [some |-> FALSE, bytes |-> <<>>, pos |-> 0]
Some(bytes) == [some |-> TRUE, bytes |-> bytes, pos |-> 0]

VARIABLES
    file,         \* self.file: None, or the file's bytes and read position
    pc,           \* where parse is: "start", "loop", "fold", "done"
    result,       \* what parse came to: running, Ok, an Err, or a panic
    chunk,        \* the chunk bound by `while let Ok(chunk)`
    chunk_start,  \* the file position at the last call of read_chunk
    read_result,  \* "none" or what the last call of read_chunk came to
    read_log,     \* the chunks read_chunk has returned, in order
    inflate_log,  \* the calls of the decoder: input and outcome, in order
    i,            \* the occurrence counter of parse
    data_chunks,  \* the compressed payload buffer of parse
    width, height, bit_depth, color_type,
    compression_method, filter_method, interlace_method,
    pallette,     \* self.pallette
    data,         \* self.data, the decompressed bytes
    chunks        \* self.chunks, the map from occurrence index to chunk

header == <<width, height, bit_depth, color_type,
            compression_method, filter_method, interlace_method>>
image == <<header, pallette, data, chunks>>
locals == <<i, data_chunks, chunk>>
logs == <<chunk_start, read_result, read_log, inflate_log>>
vars == <<file, pc, result, image, locals, logs>>

(***************************************************************************)
(* The files parse is run on.  A chunk is laid out as the PNG format lays  *)
(* it out: length, tag, payload, CRC over tag and payload.                 *)
(***************************************************************************)
Wire(tag, payload) ==
    to_be_bytes(<<0, Len(payload)>>) \o tag \o payload \o to_be_bytes(crc(tag \o payload))

\* a zlib stream of one stored block holding the byte 97, whole and in two
\* parts, and one holding no byte at all
ZlibOneByte == <<120, 1, 1, 1, 0, 254, 255, 97, 0, 98, 0, 98>>
ZlibPartA == SubSeq(ZlibOneByte, 1, 5)
ZlibPartB == SubSeq(ZlibOneByte, 6, 12)
ZlibNoByte == <<120, 1, 1, 0, 0, 255, 255, 0, 0, 0, 1>>

TagText == <<116, 69, 88, 116>>
TagNotUtf8 == <<73, 72, 200, 82>>
HeaderExample == <<0, 0, 0, 10, 0, 0, 0, 20, 8, 2, 0, 0, 0>>
HeaderVaried == <<1, 2, 3, 4, 250, 251, 252, 253, 16, 3, 5, 6, 7>>

\* the chunks that generated files are sequences of
CoreChunks ==
    { Wire(TagIHDR, HeaderExample),
      Wire(TagIDAT, ZlibOneByte),
      Wire(TagIDAT, ZlibPartA),
      Wire(TagIDAT, ZlibPartB),
      Wire(TagIDAT, <<>>),
      Wire(TagPLTE, <<1, 2, 3, 4, 5, 6>>),
      Wire(TagIEND, <<>>),
      Wire(TagText, <<7>>) }

\* further chunks, each tried at the head of a file
WideChunks ==
    { Wire(TagIHDR, HeaderVaried),
      Wire(TagIHDR, <<0, 0, 1, 2, 9>>),
      Wire(TagIHDR, <<>>),
      Wire(TagPLTE, <<>>),
      Wire(TagPLTE, <<1, 2, 3>>),
      Wire(TagPLTE, <<1, 2>>),
      Wire(TagIDAT, ZlibNoByte),
      Wire(TagIDAT, <<9, 9, 9>>),
      Wire(TagNotUtf8, <<9>>),
      Wire(TagIEND, <<5>>) }

RECURSIVE Flatten(_)
Flatten(ss) == IF ss = <<>> THEN <<>> ELSE Head(ss) \o Flatten(Tail(ss))

ChunkSeqs(S, n) == UNION { [1..k -> S] : k \in 0..n }

\* a signature followed by up to MaxChunks well-formed chunks
FramedFiles ==
    { png_signiture \o Flatten(cs) : cs \in ChunkSeqs(CoreChunks, MaxChunks) }

WideFiles ==
    { png_signiture \o w : w \in WideChunks }
    \cup { png_signiture \o w \o c : w \in WideChunks, c \in CoreChunks }
    \cup { png_signiture \o c \o w : w \in WideChunks, c \in CoreChunks }

\* a complete image: header, data, end
BaseFile ==
    png_signiture \o Wire(TagIHDR, HeaderExample) \o Wire(TagIDAT, ZlibOneByte)
                  \o Wire(TagIEND, <<>>)

\* the file cut short after n bytes
Truncated(bytes, n) == SubSeq(bytes, 1, n)

\* the file with the byte at index k changed to another value
Damaged(bytes, k) == [bytes EXCEPT ![k] = (bytes[k] + 1) % Pow2_8]

FaultyFiles ==
    { Truncated(BaseFile, n) : n \in 0..(Len(BaseFile) - 1) }
    \cup { Damaged(BaseFile, k) : k \in 1..Len(BaseFile) }

\* an IHDR chunk with each payload length from 0 to 13, alone in the file
HeaderFiles ==
    { png_signiture \o Wire(TagIHDR, SubSeq(HeaderVaried, 1, n)) : n \in 0..13 }

\* the file with the byte at index k set to v
WithByte(bytes, k, v) == [bytes EXCEPT ![k] = v]

\* the indices in BaseFile of the payload bytes of its IHDR chunk
BaseHeaderPayload == 17..29

\* BaseFile with one byte of its IHDR payload set to each other value
PayloadDamagedFiles ==
    { WithByte(BaseFile, k, v) : k \in BaseHeaderPayload, v \in 0..255 } \ {BaseFile}

\* the ASCII bytes "123456789", and a file whose one chunk has them as its
\* tag and payload and carries the bytes CB F4 39 26 as its CRC
Digits == <<49, 50, 51, 52, 53, 54, 55, 56, 57>>
CheckValueFile ==
    png_signiture \o <<0, 0, 0, 5>> \o Digits \o <<203, 244, 57, 38>>

Files ==
    FramedFiles \cup WideFiles \cup FaultyFiles \cup HeaderFiles
        \cup PayloadDamagedFiles \cup {CheckValueFile}

\* what parse comes to: still running, a returned Ok(()) or Err(e), or a
\* panic that unwinds out of it
Running == [kind |-> "running", what |-> ""]
Ok == [kind |-> "Ok", what |-> "()"]
Err(e) == [kind |-> "Err", what |-> e]
Panicked(message) == [kind |-> "panic", what |-> message]

(***************************************************************************)
(* The state after PNGFile::init (or PNGFile::default, which has no file). *)
(***************************************************************************)
Init ==
    /\ file \in {None} \cup { Some(b) : b \in Files }
    /\ pc = "start"
    /\ result = Running
    /\ chunk = NoChunk
    /\ chunk_start = 0
    /\ read_result = "none"
    /\ read_log = <<>>
    /\ inflate_log = <<>>
    /\ i = 0
    /\ data_chunks = <<>>
    /\ width = <<0, 0>>
    /\ height = <<0, 0>>
    /\ bit_depth = 0
    /\ color_type = 0
    /\ compression_method = 0
    /\ filter_method = 0
    /\ interlace_method = 0
    /\ pallette = <<>>
    /\ data = <<>>
    /\ chunks = <<>>

(***************************************************************************)
(* parse.                                                                  *)
(***************************************************************************)
ErrSignature == Err("ParseError(Invalid png file, wrong signiture.)")

\* the match arm `None => Ok(())`
ParseNone ==
    /\ pc = "start"
    /\ ~file.some
    /\ pc' = "done"
    /\ result' = Ok
    /\ UNCHANGED <<file, image, locals, logs>>

\* the signature is read and differs: return the error
SignatureRejected ==
    /\ pc = "start"
    /\ file.some
    /\ signature_mismatch(file.bytes)
    /\ file' = [file EXCEPT !.pos = Len(ReadBytes(file.bytes, 0, 8))]
    /\ pc' = "done"
    /\ result' = ErrSignature
    /\ UNCHANGED <<image, locals, logs>>

\* the signature is read and matches: set up the loop
SignatureAccepted ==
    /\ pc = "start"
    /\ file.some
    /\ ~signature_mismatch(file.bytes)
    /\ file' = [file EXCEPT !.pos = Len(ReadBytes(file.bytes, 0, 8))]
    /\ data_chunks' = <<>>
    /\ chunks' = <<>>
    /\ i' = 0
    /\ pc' = "loop"
    /\ UNCHANGED <<result, header, pallette, data, chunk, logs>>

\* a variant in which a chunk comes back and the file stays where it was
ReadChunkInPlace ==
    /\ pc = "loop"
    /\ LET r == read_chunk(file.bytes, file.pos)
       IN  /\ r.ok
           /\ chunk' = r.chunk
           /\ read_log' = Append(read_log, r.chunk)
           /\ read_result' = "Ok"
    /\ chunk_start' = file.pos
    /\ pc' = "fold"
    /\ UNCHANGED <<file, result, image, i, data_chunks, inflate_log>>

\* `while let Ok(chunk) = PNGFile::read_chunk(f)`: a chunk came back
ReadChunk ==
    /\ pc = "loop"
    /\ LET r == read_chunk(file.bytes, file.pos)
       IN  /\ r.ok
           /\ file' = [file EXCEPT !.pos = r.pos]
           /\ chunk' = r.chunk
           /\ read_log' = Append(read_log, r.chunk)
           /\ read_result' = "Ok"
    /\ chunk_start' = file.pos
    /\ pc' = "fold"
    /\ UNCHANGED <<result, image, i, data_chunks, inflate_log>>

\* a variant in which a chunk with a bad CRC is passed over and the loop
\* goes on to the next one
LoopEndSkipsBadCrc ==
    /\ pc = "loop"
    /\ LET r == read_chunk(file.bytes, file.pos)
       IN  /\ ~r.ok
           /\ file' = [file EXCEPT !.pos = r.pos]
           /\ read_result' = r.err
           /\ pc' = IF r.err = "ParseError(Invalid CRC)" THEN "loop" ELSE "done"
           /\ result' = IF r.err = "ParseError(Invalid CRC)" THEN result ELSE Ok
    /\ chunk_start' = file.pos
    /\ UNCHANGED <<image, locals, read_log, inflate_log>>

\* read_chunk returned an error: the loop ends, parse prints and returns Ok
LoopEnd ==
    /\ pc = "loop"
    /\ LET r == read_chunk(file.bytes, file.pos)
       IN  /\ ~r.ok
           /\ file' = [file EXCEPT !.pos = r.pos]
           /\ read_result' = r.err
    /\ chunk_start' = file.pos
    /\ pc' = "done"
    /\ result' = Ok
    /\ UNCHANGED <<image, locals, read_log, inflate_log>>

\* the end of a turn of the loop: i += 1, back to the loop's head
NextTurn ==
    /\ i' = i + 1
    /\ pc' = "loop"
    /\ result' = result

\* a panic unwinds out of parse
Panic(message) ==
    /\ pc' = "done"
    /\ result' = Panicked(message)
    /\ i' = i

FoldIHDR ==
    /\ pc = "fold"
    /\ is_first_ihdr(chunk.type_, i)
    /\ width' = ihdr_width(chunk.data)
    /\ height' = ihdr_height(chunk.data)
    /\ bit_depth' = ihdr_bit_depth(chunk.data)
    /\ color_type' = ihdr_color_type(chunk.data)
    /\ compression_method' = ihdr_compression_method(chunk.data)
    /\ filter_method' = ihdr_filter_method(chunk.data)
    /\ interlace_method' = ihdr_interlace_method(chunk.data)
    /\ NextTurn
    /\ UNCHANGED <<file, pallette, data, chunks, data_chunks, chunk, logs>>

FoldIDAT ==
    /\ pc = "fold"
    /\ ~is_first_ihdr(chunk.type_, i)
    /\ chunk.type_ = TagIDAT
    /\ data_chunks' = idat_append(data_chunks, chunk.data)
    /\ IF Len(data_chunks') > 0
       THEN NextTurn
       ELSE Panic("assertion failed: data_chunks.len() > 0 (IDAT)")
    /\ UNCHANGED <<file, image, chunk, logs>>

FoldPLTE ==
    /\ pc = "fold"
    /\ ~is_first_ihdr(chunk.type_, i)
    /\ chunk.type_ = TagPLTE
    /\ LET f == plte_fold(pallette, chunk.data)
       IN  /\ pallette' = f.pallette
           /\ IF f.panic
              THEN Panic("range end index out of range for slice (PLTE)")
              ELSE NextTurn
    /\ UNCHANGED <<file, header, data, chunks, data_chunks, chunk, logs>>

FoldIEND ==
    /\ pc = "fold"
    /\ ~is_first_ihdr(chunk.type_, i)
    /\ chunk.type_ = TagIEND
    /\ IF Len(data_chunks) = 0
       THEN /\ Panic("assertion failed: data_chunks.len() > 0 (IEND)")
            /\ UNCHANGED <<data, inflate_log>>
       ELSE \E o \in inflate(data_chunks) :
            /\ inflate_log' = Append(inflate_log, [input |-> data_chunks, outcome |-> o])
            /\ IF ~o.ok
               THEN /\ Panic("called Result::unwrap() on an Err value (IEND)")
                    /\ data' = data
               ELSE IF Len(o.out) = 0
               THEN /\ Panic("assertion failed: deflated_data.len() > 0 (IEND)")
                    /\ data' = data
               ELSE /\ data' = data \o o.out
                    /\ NextTurn
    /\ UNCHANGED <<file, header, pallette, chunks, data_chunks, chunk,
                   chunk_start, read_result, read_log>>

FoldOther ==
    /\ pc = "fold"
    /\ ~is_first_ihdr(chunk.type_, i)
    /\ chunk.type_ \notin {TagIDAT, TagPLTE, TagIEND}
    /\ chunks' = chunks_insert(chunks, i, chunk)
    /\ NextTurn
    /\ UNCHANGED <<file, header, pallette, data, data_chunks, chunk, logs>>

Next ==
    \/ ParseNone
    \/ SignatureRejected
    \/ SignatureAccepted
    \/ ReadChunk
    \/ LoopEnd
    \/ FoldIHDR
    \/ FoldIDAT
    \/ FoldPLTE
    \/ FoldIEND
    \/ FoldOther

Spec == Init /\ [][Next]_vars

(***************************************************************************)
(* Properties.                                                             *)
(***************************************************************************)
\* the image state PNGFile::default leaves
ImageUntouched ==
    /\ width = <<0, 0>> /\ height = <<0, 0>>
    /\ bit_depth = 0 /\ color_type = 0
    /\ compression_method = 0 /\ filter_method = 0 /\ interlace_method = 0
    /\ pallette = <<>> /\ data = <<>> /\ chunks = <<>>

\* the file's first 8 bytes are not exactly the signature
BadSignature(bytes) == Len(bytes) < 8 \/ SubSeq(bytes, 1, 8) # png_signiture

\* C1: a file whose first 8 bytes are not the PNG signature (a file of
\* fewer than 8 bytes included) makes parse return the signature error, with
\* read_chunk never called and no header, palette, data or ancillary state
\* changed.
C1_BadSignatureRejected ==
    (file.some /\ BadSignature(file.bytes)) =>
        /\ pc \in {"start", "done"}
        /\ pc = "done" => result = ErrSignature
        /\ read_result = "none" /\ read_log = <<>> /\ inflate_log = <<>>
        /\ file.pos <= 8
        /\ ImageUntouched /\ data_chunks = <<>> /\ i = 0

C1_Witness ==
    /\ file.some /\ Len(file.bytes) < 8 /\ Len(file.bytes) > 0
    /\ pc = "done" /\ result = ErrSignature

\* the chunk laid out in the file from position p on, when one is there:
\* a length, a tag, that many payload bytes and 4 CRC bytes
FramedAt(bytes, p) ==
    /\ p + 12 <= Len(bytes)
    /\ bytes[p + 1] = 0 /\ bytes[p + 2] = 0
    /\ p + 12 + bytes[p + 3] * 256 + bytes[p + 4] <= Len(bytes)

LengthAt(bytes, p) == bytes[p + 3] * 256 + bytes[p + 4]
TagAt(bytes, p) == SubSeq(bytes, p + 5, p + 8)
PayloadAt(bytes, p) == SubSeq(bytes, p + 9, p + 8 + LengthAt(bytes, p))
CrcBytesAt(bytes, p) ==
    SubSeq(bytes, p + 9 + LengthAt(bytes, p), p + 12 + LengthAt(bytes, p))

\* the chunk at p is framed and carries the CRC of its tag and payload
WellFormedAt(bytes, p) ==
    /\ FramedAt(bytes, p)
    /\ CrcBytesAt(bytes, p) = to_be_bytes(crc(TagAt(bytes, p) \o PayloadAt(bytes, p)))

\* read_chunk returned the chunk laid out at chunk_start, field for field,
\* and the stored crc is the crc of the returned tag and data
ReturnedAsLaidOut ==
    /\ read_result = "Ok"
    /\ chunk.size = <<0, LengthAt(file.bytes, chunk_start)>>
    /\ chunk.type_ = TagAt(file.bytes, chunk_start)
    /\ chunk.data = PayloadAt(file.bytes, chunk_start)
    /\ Len(chunk.data) = chunk.size[2]
    /\ chunk.crc = crc(chunk.type_ \o chunk.data)

\* C2, as stated: every well-formed chunk comes back from read_chunk with
\* the size, tag and payload it was laid out with, and a crc that is the crc
\* of the returned tag and data.
C2_Original ==
    (read_result # "none" /\ WellFormedAt(file.bytes, chunk_start))
        => ReturnedAsLaidOut

\* C2, amended: the same, for chunks whose 4 tag bytes are valid UTF-8.
C2_WellFormedChunkReturned ==
    (/\ read_result # "none"
     /\ WellFormedAt(file.bytes, chunk_start)
     /\ utf8_valid_from(TagAt(file.bytes, chunk_start), 1))
        => ReturnedAsLaidOut

C2_Witness ==
    /\ pc = "fold" /\ read_result = "Ok"
    /\ WellFormedAt(file.bytes, chunk_start)
    /\ chunk.type_ = TagText /\ chunk.data = <<7>> /\ Len(read_log) = 2

\* the chunks folded so far: those read, less the one still to be folded
Folded == IF pc = "fold" THEN SubSeq(read_log, 1, Len(read_log) - 1) ELSE read_log

\* the payloads of the IDAT chunks of log, in order, end to end
RECURSIVE IdatPayloads(_)
IdatPayloads(log) ==
    IF log = <<>> THEN <<>>
    ELSE (IF Head(log).type_ = TagIDAT THEN Head(log).data ELSE <<>>)
         \o IdatPayloads(Tail(log))

\* C3: at every point of a parse the compressed buffer is the payloads of
\* the IDAT chunks taken in so far, in file order, end to end, whatever
\* other chunks lie between them.
C3_BufferIsIdatConcatenation ==
    data_chunks = IdatPayloads(Folded)

C3_Witness ==
    /\ pc = "loop" /\ Len(read_log) = 3
    /\ read_log[1].type_ = TagIDAT /\ read_log[1].data = ZlibPartA
    /\ read_log[2].type_ = TagText
    /\ read_log[3].type_ = TagIDAT /\ read_log[3].data = ZlibPartB
    /\ data_chunks = ZlibPartA \o ZlibPartB

Last(log) == log[Len(log)]

\* C4: an IEND chunk met while the compressed buffer is empty makes parse
\* return an error (EmptyImageData) to its caller.
C4_EmptyImageDataReturned ==
    (/\ pc = "done" /\ read_log # <<>>
     /\ Last(read_log).type_ = TagIEND
     /\ data_chunks = <<>>)
        => result.kind = "Err"

\* C5: when the decoder rejects the compressed buffer at IEND, parse returns
\* an error (DecompressionFailure) to its caller and self.data stays empty.
C5_DecompressionFailureReturned ==
    (inflate_log # <<>> /\ inflate(Last(inflate_log).input) = {InflateErr})
        => (result.kind = "Err" /\ data = <<>>)

\* C6: a file that ends inside a chunk makes parse report a failure; only an
\* end of file exactly between chunks ends the loop without one.
C6_TruncatedChunkReported ==
    (/\ pc = "done" /\ read_result = "EOF"
     /\ chunk_start < Len(file.bytes))
        => result.kind = "Err"

\* C7: in one parse the decoder is called at most once, on the payloads of
\* all the IDAT chunks of the file end to end, and self.data is exactly what
\* it returned.
C7_DecoderCalledOnce ==
    /\ Len(inflate_log) <= 1
    /\ (Len(inflate_log) = 1 /\ pc = "done") =>
           /\ inflate_log[1].input = IdatPayloads(read_log)
           /\ (result.kind # "panic" => data = inflate_log[1].outcome.out)

\* an IEND chunk has been folded
IendFolded == \E k \in 1..Len(Folded) : Folded[k].type_ = TagIEND

\* C8: once an IEND chunk has been folded, no later chunk changes the header
\* fields, the palette, the compressed buffer, self.data or the chunk map.
C8_IendIsTerminal ==
    [][IendFolded => UNCHANGED <<header, pallette, data_chunks, data, chunks>>]_vars

\* the RGB entries of a payload cut into consecutive groups of 3 bytes
RECURSIVE Triples(_)
Triples(payload) ==
    IF Len(payload) < 3 THEN <<>>
    ELSE <<[r |-> payload[1], g |-> payload[2], b |-> payload[3]]>>
         \o Triples(SubSeq(payload, 4, Len(payload)))

\* C9: folding a PLTE chunk with a payload of 3k bytes adds exactly the k
\* entries (payload[3j], payload[3j+1], payload[3j+2]) to the palette, and
\* the parse goes on to the next chunk.
C9_PaletteGroupsOfThree ==
    [][(/\ pc = "fold"
        /\ chunk.type_ = TagPLTE
        /\ Len(chunk.data) % 3 = 0)
           => (/\ pallette' = pallette \o Triples(chunk.data)
               /\ pc' = "loop")]_vars

\* the header fields written back at the offsets they were read from
HeaderBytes ==
    to_be_bytes(width) \o to_be_bytes(height)
        \o <<bit_depth, color_type, compression_method, filter_method, interlace_method>>

\* the first chunk folded is an IHDR chunk with a payload of 13 bytes
HeaderFolded ==
    /\ Folded # <<>>
    /\ Folded[1].type_ = TagIHDR
    /\ Len(Folded[1].data) = 13

\* C10: an IHDR chunk at index 0 with a 13-byte payload p sets width and
\* height to the big-endian values of p[0..4] and p[4..8] and the five
\* one-byte fields to p[8]..p[12]; the example payload gives width 10,
\* height 20, bit depth 8, colour type 2 and zeros; writing the fields back
\* at the same offsets gives p again.
C10_HeaderFieldsFromPayload ==
    HeaderFolded =>
        LET q == Folded[1].data
        IN  /\ width = <<q[1] * 256 + q[2], q[3] * 256 + q[4]>>
            /\ height = <<q[5] * 256 + q[6], q[7] * 256 + q[8]>>
            /\ bit_depth = q[9] /\ color_type = q[10]
            /\ compression_method = q[11]
            /\ filter_method = q[12] /\ interlace_method = q[13]
            /\ HeaderBytes = q
            /\ q = HeaderExample =>
                   /\ width = <<0, 10>> /\ height = <<0, 20>>
                   /\ bit_depth = 8 /\ color_type = 2
                   /\ compression_method = 0 /\ filter_method = 0
                   /\ interlace_method = 0

C10_Witness ==
    /\ HeaderFolded /\ pc = "loop" /\ i = 1
    /\ Folded[1].data = HeaderExample
    /\ width = <<0, 10>> /\ height = <<0, 20>> /\ bit_depth = 8 /\ color_type = 2

\* the test of the first arm holds for the chunk being folded
HeaderArm == pc = "fold" /\ chunk.type_ = TagIHDR /\ i = 0

\* C11: the header fields are written only when an IHDR chunk is folded at
\* occurrence index 0; an IHDR chunk at a later index leaves all seven
\* fields as they were, so the header is set at most once in a parse.
C11_HeaderOnlyFromFirstIhdr ==
    [][/\ (header' # header) => HeaderArm
       /\ (pc = "fold" /\ chunk.type_ = TagIHDR /\ i > 0) => header' = header
       /\ i > 0 => header' = header]_vars

C11_Witness ==
    /\ pc = "loop" /\ i = 2 /\ Len(read_log) = 2
    /\ read_log[1].type_ = TagIHDR /\ read_log[1].data = HeaderVaried
    /\ read_log[2].type_ = TagIHDR /\ read_log[2].data = HeaderExample
    /\ width = <<258, 772>> /\ bit_depth = 16
    /\ 1 \in DOMAIN chunks

\* the positions (from 0) of the chunks of log that no arm but the last takes
OtherPositions(log) ==
    { k \in 0..(Len(log) - 1) :
        /\ ~(log[k + 1].type_ = TagIHDR /\ k = 0)
        /\ log[k + 1].type_ \notin {TagIDAT, TagPLTE, TagIEND} }

\* the turns of the loop completed: a chunk whose fold panicked is not counted
TurnsCompleted == IF result.kind = "panic" THEN Len(Folded) - 1 ELSE Len(Folded)

\* C12: the chunk map holds exactly the chunks read that were not taken as
\* IHDR at index 0, IDAT, PLTE or IEND, each as read_chunk returned it and
\* under its position among all chunks read; the position counter starts at
\* 0 and goes up by exactly 1 for every chunk, whatever its type.
C12_AncillaryMapByPosition ==
    /\ DOMAIN chunks = OtherPositions(Folded)
    /\ \A k \in DOMAIN chunks : chunks[k] = Folded[k + 1]
    /\ i = TurnsCompleted

C12_Witness ==
    /\ pc = "done" /\ result = Ok /\ Len(read_log) = 3
    /\ read_log[1].type_ = TagIDAT
    /\ DOMAIN chunks = {1, 2}
    /\ chunks[1].type_ = TagIHDR /\ chunks[2].type_ = TagText /\ chunks[2].data = <<7>>
    /\ i = 3

\* the first chunk folded is an IHDR chunk with a payload of at most 12 bytes
ShortHeaderFolded ==
    /\ Folded # <<>>
    /\ Folded[1].type_ = TagIHDR
    /\ Len(Folded[1].data) <= 12

\* C13: an IHDR chunk at index 0 with a payload of 0 to 12 bytes is folded
\* without a panic or an error, and every header byte position the payload
\* does not have contributes zero to its field (a one-byte field the payload
\* does have takes its byte).
C13_ShortHeaderDefaultsToZero ==
    ShortHeaderFolded =>
        LET q == Folded[1].data
        IN  /\ Len(Folded) = 1 =>
                   /\ pc \in {"loop", "fold", "done"} /\ i = 1
                   /\ result \in {Running, Ok}
            /\ \A k \in (Len(q) + 1)..13 : HeaderBytes[k] = 0
            /\ \A k \in 9..Len(q) : HeaderBytes[k] = q[k]

C13_Witness ==
    /\ ShortHeaderFolded /\ Len(Folded[1].data) = 10
    /\ pc = "done" /\ result = Ok
    /\ width = <<258, 772>> /\ height = <<64251, 64765>>
    /\ bit_depth = 16 /\ color_type = 3
    /\ compression_method = 0 /\ filter_method = 0 /\ interlace_method = 0

\* the indices at which the file differs from BaseFile, byte for byte
DiffFromBase(bytes) == { k \in 1..Len(BaseFile) : bytes[k] # BaseFile[k] }

\* the file is BaseFile with exactly one payload byte of the chunk that
\* starts at position p changed (BaseFile's chunks are correctly framed and
\* carry correct CRCs)
OnePayloadByteChanged(bytes, p) ==
    /\ Len(bytes) = Len(BaseFile)
    /\ WellFormedAt(BaseFile, p)
    /\ \E k \in (p + 9)..(p + 8 + LengthAt(BaseFile, p)) : DiffFromBase(bytes) = {k}

CrcError == "ParseError(Invalid CRC)"

\* C14: a correctly framed chunk with a correct CRC in which exactly one
\* payload byte is changed to another value makes read_chunk fail with the
\* CRC error, and no chunk comes back.
C14_PayloadDamageDetected ==
    (/\ file.some /\ read_result # "none"
     /\ OnePayloadByteChanged(file.bytes, chunk_start))
        => (/\ read_result = CrcError
            /\ pc = "done"
            /\ \A k \in 1..Len(read_log) : read_log[k].data # PayloadAt(file.bytes, chunk_start))

C14_Witness ==
    /\ file.some /\ OnePayloadByteChanged(file.bytes, chunk_start)
    /\ chunk_start = 8 /\ file.bytes[20] = 138
    /\ read_result = CrcError /\ read_log = <<>>

\* the reference CRC-32 of PNG and zlib, computed bit by bit without a
\* table: register seeded with all ones, each byte xored into its low end
\* and then 8 shifts, each xoring 0xedb88320 in when the bit shifted out is
\* 1; the result is the register complemented
RECURSIVE ReferenceShift(_, _)
ReferenceShift(c, n) ==
    IF n = 0 THEN c
    ELSE LET half == <<c[1] \div 2, (c[1] % 2) * 32768 + c[2] \div 2>>
             next == IF c[2] % 2 = 1 THEN Xor32(half, <<60856, 33568>>) ELSE half
         IN  IF next[1] >= 0 THEN ReferenceShift(next, n - 1) ELSE next

RECURSIVE ReferenceRegister(_, _, _)
ReferenceRegister(c, buf, k) ==
    IF k > Len(buf) THEN c
    ELSE LET next == ReferenceShift(Xor32(c, <<0, buf[k]>>), 8)
         IN  IF next[1] >= 0 THEN ReferenceRegister(next, buf, k + 1) ELSE next

ReferenceCrc(buf) ==
    Xor32(ReferenceRegister(<<65535, 65535>>, buf, 1), <<65535, 65535>>)

\* C15: crc is the reference CRC-32: 0x00000000 for the empty buffer,
\* 0xCBF43926 for the ASCII bytes "123456789" (a chunk made of them with that
\* CRC is accepted), and the reference value for every buffer read_chunk
\* accepts.
C15_CrcIsReferenceCrc32 ==
    /\ crc(<<>>) = <<0, 0>>
    /\ crc(Digits) = <<52212, 14630>>
    /\ (file.some /\ file.bytes = CheckValueFile /\ read_result # "none")
           => (/\ read_result # "ParseError(Invalid CRC)"
               /\ read_log # <<>>
               /\ read_log[1].data = SubSeq(Digits, 5, 9)
               /\ read_log[1].crc = <<52212, 14630>>)
    /\ pc = "fold" =>
           chunk.crc = ReferenceCrc(TagAt(file.bytes, chunk_start) \o chunk.data)

C15_Witness ==
    /\ file.some /\ file.bytes = CheckValueFile
    /\ pc = "fold" /\ chunk.data = SubSeq(Digits, 5, 9)
    /\ chunk.crc = <<52212, 14630>>

\* the bytes of the file taken up by the chunks of log: 12 and the payload
RECURSIVE Consumed(_)
Consumed(log) ==
    IF log = <<>> THEN 0 ELSE 12 + Len(Head(log).data) + Consumed(Tail(log))

\* the crc of the tag bytes and payload laid out at p, and the crc stored there
ComputedCrcAt(bytes, p) == crc(TagAt(bytes, p) \o PayloadAt(bytes, p))
TransmittedCrcAt(bytes, p) == from_be_bytes(CrcBytesAt(bytes, p))

\* C16: every chunk read_chunk returns carries the transmitted crc and that
\* crc is the crc of its tag bytes and payload; a chunk whose computed and
\* transmitted crc differ makes read_chunk fail with the CRC error, and the
\* chunks returned are then exactly those laid out before it.
C16_ReturnedChunksHaveMatchingCrc ==
    /\ read_result = "Ok" =>
           /\ chunk = Last(read_log)
           /\ chunk.data = PayloadAt(file.bytes, chunk_start)
           /\ chunk.crc = TransmittedCrcAt(file.bytes, chunk_start)
           /\ ComputedCrcAt(file.bytes, chunk_start) = chunk.crc
    /\ (/\ read_result # "none" /\ FramedAt(file.bytes, chunk_start)
        /\ ComputedCrcAt(file.bytes, chunk_start)
               # TransmittedCrcAt(file.bytes, chunk_start))
           => (/\ read_result = CrcError
               /\ 8 + Consumed(read_log) = chunk_start)

C16_Witness ==
    /\ read_result = CrcError /\ Len(read_log) = 1 /\ chunk_start = 33
    /\ FramedAt(file.bytes, chunk_start)
    /\ ComputedCrcAt(file.bytes, chunk_start) # TransmittedCrcAt(file.bytes, chunk_start)
    /\ read_log[1].crc = ComputedCrcAt(file.bytes, 8)

\* C17: a CRC mismatch ends the chunk loop: the step in which read_chunk
\* fails with the CRC error leaves the image, the position counter, the
\* compressed buffer and the chunks read as they were after the chunks before
\* it, every one of which has been folded, and ends parse; no step follows it.
C17_CrcMismatchEndsIteration ==
    [][/\ read_result # CrcError
       /\ read_result' = CrcError =>
              /\ pc' = "done"
              /\ UNCHANGED <<image, locals, read_log, inflate_log>>
              /\ i' = Len(read_log')
              /\ 8 + Consumed(read_log') = chunk_start']_vars

C17_Witness ==
    /\ read_result = CrcError /\ pc = "done"
    /\ Len(read_log) = 1 /\ i = 1 /\ width = <<0, 10>>
    /\ data_chunks = <<>>
    /\ file.pos < Len(file.bytes)

\* C18: a chunk whose 4 tag bytes are not valid UTF-8 and whose CRC over
\* those bytes and the payload is right is returned by read_chunk with the
\* empty tag and the payload it was laid out with, and once its turn of the
\* loop is over the chunk map holds it, as returned, under its position among
\* the chunks read; it stays there.
C18_NonTextTagStoredAsAncillary ==
    /\ (/\ read_result # "none"
        /\ WellFormedAt(file.bytes, chunk_start)
        /\ ~utf8_valid_from(TagAt(file.bytes, chunk_start), 1))
           => (/\ read_result = "Ok"
               /\ chunk = Last(read_log)
               /\ chunk.type_ = <<>>
               /\ chunk.size = <<0, LengthAt(file.bytes, chunk_start)>>
               /\ chunk.data = PayloadAt(file.bytes, chunk_start)
               /\ chunk.crc = TransmittedCrcAt(file.bytes, chunk_start)
               /\ pc \in {"fold", "loop"}
               /\ result = Running)
    /\ \A k \in 1..Len(Folded) :
           Folded[k].type_ = <<>> =>
               (k - 1) \in DOMAIN chunks /\ chunks[k - 1] = Folded[k]

C18_Witness ==
    /\ WellFormedAt(file.bytes, chunk_start)
    /\ TagAt(file.bytes, chunk_start) = TagNotUtf8
    /\ chunk_start = 8 + 12 + Len(HeaderExample) /\ pc = "loop" /\ i = 2
    /\ chunks = (1 :> [size |-> <<0, 1>>, type_ |-> <<>>, data |-> <<9>>,
                       crc |-> TransmittedCrcAt(file.bytes, chunk_start)])

\* the most turns the chunk loop can take on a file of n bytes
MaxTurns(n) == IF n < 8 THEN 0 ELSE (n - 8) \div 12

\* a step other than the read at the head of the loop
StepOutsideRead ==
    \/ ParseNone \/ SignatureRejected \/ SignatureAccepted
    \/ FoldIHDR \/ FoldIDAT \/ FoldPLTE \/ FoldIEND \/ FoldOther

\* parse is not stuck short of its end: at the head of the loop read_chunk
\* either returns a chunk or fails, elsewhere some step is possible
CanStep == pc = "done" \/ pc = "loop" \/ ENABLED StepOutsideRead

\* the chunks read take up at least 12 bytes each and lie within the part
\* of the file read so far; the turns taken and chunks read stay within
\* MaxTurns; a failed read ends parse; parse is never stuck before its end
LoopBounded ==
    /\ 12 * Len(read_log) <= Consumed(read_log)
    /\ file.pos <= Len(file.bytes)
    /\ (file.some /\ pc # "start" /\ result # ErrSignature) =>
           8 + Consumed(read_log) <= file.pos
    /\ read_result = "Ok" => 8 + Consumed(read_log) = file.pos
    /\ i <= Len(read_log)
    /\ Len(read_log) <= MaxTurns(Len(file.bytes))
    /\ read_result \notin {"none", "Ok"} => pc = "done"
    /\ CanStep

\* a natural number that every step of parse makes smaller: the bytes of the
\* file not yet read, counted twice, and the place in the loop
Remaining ==
    2 * (Len(file.bytes) - file.pos)
        + (CASE pc = "start" -> 2 [] pc = "fold" -> 2 [] pc = "loop" -> 1
             [] OTHER -> 0)

\* C19: parse terminates on every file: every chunk read takes at least 12
\* bytes of the file, the loop ends at the first failed read and runs at
\* most (length - 8) / 12 times, parse is never stuck short of its end, and
\* every step brings it nearer to it.
C19_ParseTerminates ==
    /\ []LoopBounded
    /\ [][/\ Remaining' < Remaining
          /\ (pc = "loop" /\ pc' = "fold") => file'.pos >= file.pos + 12]_vars

C19_Witness ==
    /\ pc = "done" /\ result = Ok /\ read_result = "EOF"
    /\ Len(file.bytes) = 8 + 2 * 12 + 1
    /\ Len(read_log) = 2 /\ i = 2
    /\ Len(read_log) = MaxTurns(Len(file.bytes))

\* C20: folding an IDAT chunk never aborts parse: the assertion made after
\* its payload is appended, that the compressed buffer is not empty, never
\* fails, a zero-length IDAT met with an empty buffer included.
C20_IdatFoldNeverAborts ==
    (read_log # <<>> /\ Last(read_log).type_ = TagIDAT)
        => result # Panicked("assertion failed: data_chunks.len() > 0 (IDAT)")

====
